---------------------------- MODULE Spec2Model ----------------------------
(***************************************************************************)
(* A model of src/sdk.js of laundree-sdk: the job correlation engine       *)
(* (Sdk.setupRedux / Sdk.emit over the module-level jobId counter and the  *)
(* per-instance jobEventEmitter) and the HTTP facade (Sdk._req).           *)
(*                                                                         *)
(* JavaScript is single threaded and runs each callback to completion, so  *)
(* while an Sdk.emit call is executing (frame.pc > 0) no other action is   *)
(* enabled; the only code that can run inside it is what socket.emit       *)
(* itself calls synchronously.                                             *)
(***************************************************************************)
EXTENDS Integers, Sequences, FiniteSets

VARIABLES
  jobId,          \* the module-level counter (sdk.js:15)
  socket,         \* this.socket of each Sdk instance
  emitter,        \* this.jobEventEmitter of each Sdk instance: its listeners
  subscribers,    \* the store's listeners, one per setupRedux call
  store,          \* the redux store's current state
  calls,          \* every Sdk.emit call made so far, with its promise
  frame,          \* the Sdk.emit call currently executing, if any
  wire,           \* the messages handed to a socket's emit that it accepted
  notifications,  \* how many times the store has notified its listeners
  resolvedAt,     \* per call: the notification that resolved it (0: none)
  fired,          \* a spy on the emitters' emit: whether it is installed, and
                  \* the events it saw at the latest notification
  authCalls,      \* every invocation of this.authenticator, with its promise
  reqs,           \* every Sdk._req call made so far, with its promise
  network,        \* per _req call: the HTTP requests it has sent
  ops             \* every UserSdk call made so far, with its promise

jobVars == <<jobId, socket, emitter, subscribers, store, calls, frame, wire,
             notifications, resolvedAt, fired>>

httpVars == <<authCalls, reqs, network>>

userVars == <<ops>>

vars == <<jobVars, httpVars, userVars>>

(* ------------------------------ bounds -------------------------------- *)

MaxCalls == 3
MaxSetups == 1
MaxNotify == 3

(* --------------------------- JavaScript values ------------------------ *)

Undefined == [type |-> "undefined"]
Null == [type |-> "null"]
Num(n) == [type |-> "number", value |-> n]
Obj(id) == [type |-> "object", id |-> id]
TypeError == [type |-> "error", name |-> "TypeError"]
SocketError == [type |-> "error", name |-> "SocketError"]

Digits == <<"0", "1", "2", "3", "4", "5", "6", "7", "8", "9">>

RECURSIVE DecimalDigits(_)
DecimalDigits(n) ==
  IF n < 10 THEN <<Digits[n + 1]>>
  ELSE DecimalDigits(n \div 10) \o <<Digits[(n % 10) + 1]>>

\* Number.prototype.toString of a non-negative integer: its decimal digits.
toString(v) == DecimalDigits(v.value)

\* JavaScript's !v for the values a store's job field takes here.
Not(v) ==
  \/ v.type \in {"null", "undefined"}
  \/ (v.type = "number" /\ v.value = 0)

StrictNotEqualZero(v) == ~(v.type = "number" /\ v.value = 0)

(* ------------------------------ the world ----------------------------- *)

Instances == {"A", "B"}

\* What a socket's emit does: "plain" takes the message and returns; "echo"
\* takes it and has the store report that job before it returns; "throws"
\* throws instead of taking it.
SocketKinds == {"plain", "echo", "throws"}

\* (action, args) of the Sdk methods that go through Sdk.emit.
EmitInputs ==
  { [action |-> "updateStats", args |-> <<>>],
    [action |-> "listBookingsForUser", args |-> <<"l1", "u1", Obj("{}")>>] }

Payloads == {Obj("p1"), Obj("p2")}

JobValues == {Null} \cup {Num(n) : n \in 0..MaxCalls}

\* The same, and a state that has no job field.
NotifiedJobs == JobValues \cup {Undefined}

StoreStates == [job : JobValues, data : Payloads]

NoFrame == [pc |-> 0]

(* ---------------------------- EventEmitter ---------------------------- *)

\* emitter.once(name, resolve): one more one-shot listener, last in order.
Once(listeners, name, call) ==
  Append(listeners, [event |-> name, resolve |-> call])

Fired_all(listeners, name) == listeners

Fired(listeners, name) == SelectSeq(listeners, LAMBDA w : w.event = name)

Remaining_on(listeners, name) == listeners

Remaining_none(listeners, name) == <<>>

Remaining(listeners, name) == SelectSeq(listeners, LAMBDA w : w.event # name)

\* A promise's resolve function: the first settlement wins.
Resolve(cs, c, value) ==
  IF cs[c].state = "pending"
    THEN [cs EXCEPT ![c].state = "resolved", ![c].value = value]
    ELSE cs

RECURSIVE CallListeners(_, _, _)
CallListeners(cs, ws, args) ==
  IF ws = <<>> THEN cs
  ELSE CallListeners(
         Resolve(cs, Head(ws).resolve, IF Len(args) >= 1 THEN args[1] ELSE Undefined),
         Tail(ws), args)

\* emitter.emit(name, ...args) on instance i: every listener of that name is
\* removed (all are one-shot) and called with args.
EmitterEmit(h, i, name, args) ==
  [emitter |-> [h.emitter EXCEPT ![i] = Remaining(@, name)],
   calls |-> CallListeners(h.calls, Fired(h.emitter[i], name), args),
   fired |-> Append(h.fired, [inst |-> i, event |-> name])]

(* ------------------------- Sdk.setupRedux ----------------------------- *)

\* sdk.js:253: the arguments after the event name.
EventArgs_payload(st) == <<st.data>>

EventArgs(st) == <<>>

\* sdk.js:250: the notification is ignored.
NoJob_falsy(job) == Not(job)

NoJob(job) == Not(job) /\ StrictNotEqualZero(job)

\* sdk.js:248-254: the store listener of instance i, run on state st.
StoreListener(h, i, st) ==
  IF NoJob(st.job) THEN h
  ELSE EmitterEmit(h, i, toString(st.job), EventArgs(st))

RECURSIVE NotifyAll(_, _, _)
NotifyAll(subs, h, st) ==
  IF subs = <<>> THEN h
  ELSE NotifyAll(Tail(subs), StoreListener(h, Head(subs), st), st)

\* The store takes state st and calls every listener, in subscription order.
StoreChange(st) ==
  LET h == NotifyAll(subscribers, [emitter |-> emitter, calls |-> calls, fired |-> <<>>], st)
  IN /\ store' = st
     /\ emitter' = h.emitter
     /\ calls' = h.calls
     /\ notifications' = notifications + 1
     /\ fired' = [fired EXCEPT !.events = IF fired.spy THEN h.fired ELSE <<>>]
     /\ resolvedAt' =
          [c \in DOMAIN resolvedAt |->
             IF calls[c].state = "pending" /\ h.calls[c].state = "resolved"
               THEN notifications + 1 ELSE resolvedAt[c]]

\* sdk.js:246-255
SetupRedux(i, kind) ==
  /\ frame.pc = 0
  /\ Len(subscribers) < MaxSetups
  /\ socket' = [socket EXCEPT ![i] = kind]
  /\ subscribers' = Append(subscribers, i)
  /\ UNCHANGED <<httpVars, userVars, jobId, emitter, store, calls, frame, wire, notifications, resolvedAt, fired>>

\* A state mutation of the store, from outside the Sdk.
Dispatch(st) ==
  /\ frame.pc = 0
  /\ notifications < MaxNotify
  /\ StoreChange(st)
  /\ UNCHANGED <<httpVars, userVars, jobId, socket, subscribers, frame, wire>>

(* ----------------------------- Sdk.emit ------------------------------- *)

\* sdk.js:262-263: the statements of the promise's executor, in order.
EmitBody_emitFirst == <<"socketEmit", "once">>

EmitBody == <<"once", "socketEmit">>

\* sdk.js:258: the value of jobId++ and the counter after it.
DrawJobId_preIncrement == [jId |-> jobId + 1, next |-> jobId + 1]

DrawJobId_noIncrement == [jId |-> jobId, next |-> jobId]

DrawJobId == [jId |-> jobId, next |-> jobId + 1]

\* sdk.js:262: the event the waiter is registered under.
WaiterEvent_counter(f) == toString(Num(jobId))

WaiterEvent(f) == toString(Num(f.jId))

\* sdk.js:259: the options object sent with the action.
Opts_counter(jId) == [jobId |-> jId + 1]

Opts(jId) == [jobId |-> jId]

\* sdk.js:260: [action, opts].concat(args)
NewArgs(action, opts, args) == <<action, opts>> \o args

\* sdk.js:257-261: draw the id, build the message, create the promise and
\* enter its executor.
EmitCall(i, in) ==
  /\ frame.pc = 0
  /\ Len(calls) < MaxCalls
  /\ LET jId == DrawJobId.jId
         opts == Opts(jId)
         newArgs == NewArgs(in.action, opts, in.args)
     IN /\ jobId' = DrawJobId.next
        /\ calls' = Append(calls, [inst |-> i, action |-> in.action, args |-> in.args,
                                   jId |-> jId, state |-> "pending", value |-> Undefined])
        /\ resolvedAt' = Append(resolvedAt, 0)
        /\ frame' = [pc |-> 1, inst |-> i, call |-> Len(calls) + 1, jId |-> jId,
                     newArgs |-> newArgs]
  /\ UNCHANGED <<httpVars, userVars, socket, emitter, subscribers, store, wire, notifications, fired>>

FrameAfter(f) == IF f.pc < Len(EmitBody) THEN [f EXCEPT !.pc = @ + 1] ELSE NoFrame

\* sdk.js:262
ExecOnce ==
  /\ frame.pc > 0
  /\ EmitBody[frame.pc] = "once"
  /\ emitter' = [emitter EXCEPT ![frame.inst] = Once(@, WaiterEvent(frame), frame.call)]
  /\ frame' = FrameAfter(frame)
  /\ UNCHANGED <<httpVars, userVars, jobId, socket, subscribers, store, calls, wire, notifications, resolvedAt, fired>>

Message(f) == [call |-> f.call, inst |-> f.inst, socket |-> socket[f.inst], args |-> f.newArgs]

\* sdk.js:263 with this.socket undefined: the executor throws a TypeError,
\* which rejects the promise and ends the executor.
ExecSocketEmitUnset ==
  /\ frame.pc > 0
  /\ EmitBody[frame.pc] = "socketEmit"
  /\ socket[frame.inst] = "unset"
  /\ calls' = [calls EXCEPT ![frame.call].state = "rejected", ![frame.call].value = TypeError]
  /\ frame' = NoFrame
  /\ UNCHANGED <<httpVars, userVars, jobId, socket, emitter, subscribers, store, wire, notifications, resolvedAt, fired>>

\* sdk.js:263 on a socket whose emit throws: the promise is rejected with
\* what was thrown and the executor ends.
ExecSocketEmitThrows ==
  /\ frame.pc > 0
  /\ EmitBody[frame.pc] = "socketEmit"
  /\ socket[frame.inst] = "throws"
  /\ calls' = [calls EXCEPT ![frame.call].state = "rejected", ![frame.call].value = SocketError]
  /\ frame' = NoFrame
  /\ UNCHANGED <<httpVars, userVars, jobId, socket, emitter, subscribers, store, wire, notifications, resolvedAt, fired>>

\* sdk.js:263 on a socket that takes the message and returns.
ExecSocketEmitPlain ==
  /\ frame.pc > 0
  /\ EmitBody[frame.pc] = "socketEmit"
  /\ socket[frame.inst] = "plain"
  /\ wire' = Append(wire, Message(frame))
  /\ frame' = FrameAfter(frame)
  /\ UNCHANGED <<httpVars, userVars, jobId, socket, emitter, subscribers, store, calls, notifications, resolvedAt, fired>>

\* sdk.js:263 on a socket whose reply reaches the store before emit returns.
ExecSocketEmitEcho(data) ==
  /\ frame.pc > 0
  /\ EmitBody[frame.pc] = "socketEmit"
  /\ socket[frame.inst] = "echo"
  /\ wire' = Append(wire, Message(frame))
  /\ StoreChange([job |-> Num(frame.newArgs[2].jobId), data |-> data])
  /\ frame' = FrameAfter(frame)
  /\ UNCHANGED <<httpVars, userVars, jobId, socket, subscribers>>

(* ------------------------------ strings ------------------------------- *)

\* A string is the sequence of its characters. The printable characters of
\* the ASCII code in code order, those from 32 to 95 and those from 97 to
\* 126: a character's place gives its UTF-8 byte.
AsciiFrom32 ==
  <<" ", "!", "\"", "#", "$", "%", "&", "'", "(", ")", "*", "+", ",",
    "-", ".", "/", "0", "1", "2", "3", "4", "5", "6", "7", "8", "9",
    ":", ";", "<", "=", ">", "?", "@", "A", "B", "C", "D", "E", "F",
    "G", "H", "I", "J", "K", "L", "M", "N", "O", "P", "Q", "R", "S",
    "T", "U", "V", "W", "X", "Y", "Z", "[", "\\", "]", "^", "_">>

AsciiFrom97 ==
  <<"a", "b", "c", "d", "e", "f", "g", "h", "i", "j", "k", "l", "m",
    "n", "o", "p", "q", "r", "s", "t", "u", "v", "w", "x", "y", "z",
    "{", "|", "}", "~">>

Ord(ch) ==
  IF \E k \in DOMAIN AsciiFrom32 : AsciiFrom32[k] = ch
    THEN 31 + (CHOOSE k \in DOMAIN AsciiFrom32 : AsciiFrom32[k] = ch)
    ELSE 96 + (CHOOSE k \in DOMAIN AsciiFrom97 : AsciiFrom97[k] = ch)

\* Buffer.from(str): the bytes of a string of such characters.
Bytes(str) == [k \in DOMAIN str |-> Ord(str[k])]

Base64Alphabet ==
  <<"A", "B", "C", "D", "E", "F", "G", "H", "I", "J", "K", "L", "M",
    "N", "O", "P", "Q", "R", "S", "T", "U", "V", "W", "X", "Y", "Z",
    "a", "b", "c", "d", "e", "f", "g", "h", "i", "j", "k", "l", "m",
    "n", "o", "p", "q", "r", "s", "t", "u", "v", "w", "x", "y", "z",
    "0", "1", "2", "3", "4", "5", "6", "7", "8", "9", "+", "/">>

Sextet(n) == Base64Alphabet[n + 1]

\* Buffer.prototype.toString('base64')
RECURSIVE Base64(_)
Base64(bytes) ==
  IF Len(bytes) = 0 THEN <<>>
  ELSE IF Len(bytes) = 1 THEN
    <<Sextet(bytes[1] \div 4), Sextet((bytes[1] % 4) * 16), "=", "=">>
  ELSE IF Len(bytes) = 2 THEN
    <<Sextet(bytes[1] \div 4), Sextet((bytes[1] % 4) * 16 + bytes[2] \div 16),
      Sextet((bytes[2] % 16) * 4), "=">>
  ELSE
    <<Sextet(bytes[1] \div 4), Sextet((bytes[1] % 4) * 16 + bytes[2] \div 16),
      Sextet((bytes[2] % 16) * 4 + bytes[3] \div 64), Sextet(bytes[3] % 64)>>
    \o Base64(SubSeq(bytes, 4, Len(bytes)))

(* ----------------------------- Sdk._req ------------------------------- *)

MaxReqs == 2

\* sdk.js:231
baseUrl == <<"/", "a", "p", "i">>

Unauthenticated == [type |-> "unauthenticated"]
Basic(u, p) == [type |-> "basic", username |-> u, password |-> p]
Bearer(t) == [type |-> "bearer", token |-> t]

\* What a credential provider may resolve to.
Strategies == {Unauthenticated, Basic(<<"a">>, <<"b">>), Bearer(<<"x", "y">>)}

AuthError == [type |-> "error", name |-> "AuthError"]

\* The calls getRequest, deleteRequest, postRequest and putRequest make
\* (sdk.js:329-343): only post and put pass data on.
Bodies == {Null, Obj("body")}

Paths == {<<"/", "u">>}

HttpInputs ==
  {[method |-> m, path |-> p, data |-> Null] : m \in {"get", "delete"}, p \in Paths}
  \cup {[method |-> m, path |-> p, data |-> d] : m \in {"post", "put"}, p \in Paths, d \in Bodies}

\* The HTTP transport's answers: a 2xx response fulfils the request's promise,
\* any other status or a network failure rejects it.
Responses ==
  {[type |-> "response", status |-> 200], [type |-> "error", status |-> 404],
   [type |-> "error", name |-> "NetworkError"]}

\* req.set(name, value)
SetHeader(headers, name, value) ==
  IF \E k \in DOMAIN headers : headers[k].name = name
    THEN [k \in DOMAIN headers |->
            IF headers[k].name = name THEN [name |-> name, value |-> value] ELSE headers[k]]
    ELSE Append(headers, [name |-> name, value |-> value])

\* sdk.js:314-322
WithAuth_noColon(headers, authStrategy) ==
  CASE authStrategy.type = "basic" ->
         SetHeader(headers, "Authorization",
                   <<"B", "a", "s", "i", "c", " ">> \o Base64(Bytes(authStrategy.username \o authStrategy.password)))
    [] authStrategy.type = "bearer" ->
         SetHeader(headers, "Authorization", <<"B", "e", "a", "r", "e", "r", " ">> \o authStrategy.token)
    [] OTHER -> headers

WithAuth(headers, authStrategy) ==
  CASE authStrategy.type = "unauthenticated" -> headers
    [] authStrategy.type = "basic" ->
         SetHeader(headers, "Authorization",
                   <<"B", "a", "s", "i", "c", " ">> \o Base64(Bytes(authStrategy.username \o <<":">> \o authStrategy.password)))
    [] authStrategy.type = "bearer" ->
         SetHeader(headers, "Authorization", <<"B", "e", "a", "r", "e", "r", " ">> \o authStrategy.token)
    [] OTHER -> headers

\* sdk.js:313: this.authenticator() is called; its promise is what is awaited.
Authenticate_cached ==
  IF authCalls = <<>>
    THEN [log |-> Append(authCalls, [state |-> "pending", value |-> Undefined]), promise |-> 1]
    ELSE [log |-> authCalls, promise |-> 1]

Authenticate ==
  [log |-> Append(authCalls, [state |-> "pending", value |-> Undefined]), promise |-> Len(authCalls) + 1]

\* sdk.js:311-313: the request is built and the provider called; the call
\* then waits for the provider's promise.
Req(in) ==
  /\ authCalls' = Authenticate.log
  /\ reqs' = Append(reqs, [method |-> in.method, path |-> in.path,
                           url |-> baseUrl \o in.path, data |-> in.data,
                           headers |-> <<>>, auth |-> Authenticate.promise,
                           state |-> "awaitAuth", value |-> Undefined])
  /\ network' = Append(network, <<>>)

\* sdk.js:329-343: postRequest, deleteRequest, putRequest, getRequest
ReqCall(in) ==
  /\ Len(reqs) < MaxReqs
  /\ Req(in)
  /\ UNCHANGED <<jobVars, userVars>>

\* The credential provider's promise settles.
ProviderResolves(k, strategy) ==
  /\ k \in DOMAIN authCalls
  /\ authCalls[k].state = "pending"
  /\ authCalls' = [authCalls EXCEPT ![k] = [state |-> "resolved", value |-> strategy]]
  /\ UNCHANGED <<jobVars, userVars, reqs, network>>

ProviderRejects(k) ==
  /\ k \in DOMAIN authCalls
  /\ authCalls[k].state = "pending"
  /\ authCalls' = [authCalls EXCEPT ![k] = [state |-> "rejected", value |-> AuthError]]
  /\ UNCHANGED <<jobVars, userVars, reqs, network>>

\* sdk.js:313: what the call rejects with when the awaited promise rejected
\* with err: nothing catches it.
Rethrown_wrapped(err) == [type |-> "error", name |-> "Error"]

Rethrown(err) == err

\* sdk.js:313: the awaited promise rejected, and so does the call.
ReqAuthFailed(c) ==
  /\ c \in DOMAIN reqs
  /\ reqs[c].state = "awaitAuth"
  /\ authCalls[reqs[c].auth].state = "rejected"
  /\ reqs' = [reqs EXCEPT ![c].state = "rejected",
                          ![c].value = Rethrown(authCalls[reqs[c].auth].value)]
  /\ UNCHANGED <<jobVars, userVars, authCalls, network>>

\* sdk.js:325-326: without data req.then() sends the request as built; with
\* data req.send(data) adds the body and the request is sent when the
\* returned request is awaited.
Payload_dropped(data) == Null

Payload(data) == IF Not(data) THEN Null ELSE data

\* The request as it goes on the network.
Outgoing(req, headers) ==
  [method |-> req.method, url |-> req.url, headers |-> headers,
   body |-> Payload(req.data), answer |-> Undefined]

\* sdk.js:313-326: the awaited promise resolved and the header is set.
\* Without data, req.then() starts the request at once (325). With data,
\* req.send(data) attaches the body and the request itself is returned (326):
\* it is started when the call's promise takes it up, in a later microtask.
ReqSend(c) ==
  /\ c \in DOMAIN reqs
  /\ reqs[c].state = "awaitAuth"
  /\ authCalls[reqs[c].auth].state = "resolved"
  /\ LET headers == WithAuth(reqs[c].headers, authCalls[reqs[c].auth].value)
     IN IF Not(reqs[c].data)
          THEN /\ reqs' = [reqs EXCEPT ![c].headers = headers, ![c].state = "sent"]
               /\ network' = [network EXCEPT ![c] = Append(@, Outgoing(reqs[c], headers))]
          ELSE /\ reqs' = [reqs EXCEPT ![c].headers = headers, ![c].state = "returned"]
               /\ UNCHANGED network
  /\ UNCHANGED <<jobVars, userVars, authCalls>>

\* sdk.js:326: the promise of the call takes up the returned request by
\* calling its then(), which starts it.
ReqThen(c) ==
  /\ c \in DOMAIN reqs
  /\ reqs[c].state = "returned"
  /\ reqs' = [reqs EXCEPT ![c].state = "sent"]
  /\ network' = [network EXCEPT ![c] = Append(@, Outgoing(reqs[c], reqs[c].headers))]
  /\ UNCHANGED <<jobVars, userVars, authCalls>>

\* sdk.js:325-326: the call's promise follows the request's: fulfilled with
\* the response, rejected with the failure.
Settled_masked(answer) == [state |-> "resolved", value |-> answer]

Settled(answer) ==
  [state |-> IF answer.type = "response" THEN "resolved" ELSE "rejected",
   value |-> answer]

\* The transport answers a request that was sent.
Respond(c, answer) ==
  /\ c \in DOMAIN reqs
  /\ reqs[c].state = "sent"
  /\ reqs' = [reqs EXCEPT ![c].state = Settled(answer).state,
                          ![c].value = Settled(answer).value]
  /\ network' = [network EXCEPT ![c][1].answer = answer]
  /\ UNCHANGED <<jobVars, userVars, authCalls>>

(* ------------------------------ UserSdk ------------------------------- *)

MaxOps == 1

Str(chars) == [type |-> "string", value |-> chars]

Array(items) == [type |-> "array", items |-> items]

User(id) == [type |-> "object", id |-> id]

UserIds == {<<"u", "1">>, <<"u", "2">>}

Emails == {<<"a", "@", "b">>, <<"c", "+", "d">>}

Locales == {Undefined, Str(<<"d", "a">>)}

\* The calls of UserSdk that chain two requests, with their argument.
UserInputs ==
  {[kind |-> k, b |-> [email |-> Str(e), locale |-> l]] :
     k \in {"startEmailVerification", "forgotPassword"}, e \in Emails, l \in Locales}
  \cup {[kind |-> "signUpUser",
          b |-> [displayName |-> Str(<<"B", "o", "b">>), email |-> Str(e),
                 password |-> Str(<<"p", "w">>), locale |-> l]] :
           e \in Emails, l \in Locales}

UserNotFound == [type |-> "error", name |-> "Error", message |-> "User not found"]

FailedToCreateUser == [type |-> "error", name |-> "Error", message |-> "Failed to create user"]

HexDigits == <<"0", "1", "2", "3", "4", "5", "6", "7", "8", "9", "A", "B", "C", "D", "E", "F">>

\* The characters encodeURIComponent leaves as they are.
Unescaped(ch) ==
  \/ Ord(ch) \in 48..57 \cup 65..90 \cup 97..122
  \/ ch \in {"-", "_", ".", "!", "~", "*", "'", "(", ")"}

\* encodeURIComponent on text of one-byte characters.
RECURSIVE EncodeURIComponent(_)
EncodeURIComponent(chars) ==
  IF chars = <<>> THEN <<>>
  ELSE (IF Unescaped(Head(chars)) THEN <<Head(chars)>>
        ELSE <<"%", HexDigits[(Ord(Head(chars)) \div 16) + 1],
                    HexDigits[(Ord(Head(chars)) % 16) + 1]>>)
       \o EncodeURIComponent(Tail(chars))

\* sdk.js:421
FromEmailRequest(email) ==
  [method |-> "get",
   path |-> <<"/", "u", "s", "e", "r", "s", "?", "e", "m", "a", "i", "l", "=">>
              \o EncodeURIComponent(email.value),
   data |-> Null]

\* sdk.js:422-424: the user of a lookup's body.
FromEmail_first(body) ==
  IF Not(body) \/ Len(body.items) = 0 THEN Null ELSE body.items[1]

FromEmail(body) ==
  IF Not(body) THEN Null
  ELSE IF Len(body.items) # 1 THEN Null
  ELSE body.items[1]

\* sdk.js:428, 434
CreateUserRequest(b) ==
  [method |-> "post", path |-> <<"/", "u", "s", "e", "r", "s">>,
   data |-> [type |-> "object", displayName |-> b.displayName,
             email |-> b.email, password |-> b.password]]

\* sdk.js:481
StartEmailVerificationPath_fixed(id) ==
  <<"/", "u", "s", "e", "r", "s", "/", "u", "1">>
    \o <<"/", "s", "t", "a", "r", "t", "-", "e", "m", "a", "i", "l", "-",
         "v", "e", "r", "i", "f", "i", "c", "a", "t", "i", "o", "n">>

StartEmailVerificationPath(id) ==
  <<"/", "u", "s", "e", "r", "s", "/">> \o id
    \o <<"/", "s", "t", "a", "r", "t", "-", "e", "m", "a", "i", "l", "-",
         "v", "e", "r", "i", "f", "i", "c", "a", "t", "i", "o", "n">>

\* sdk.js:477
StartPasswordResetPath(id) ==
  <<"/", "u", "s", "e", "r", "s", "/">> \o id
    \o <<"/", "s", "t", "a", "r", "t", "-", "p", "a", "s", "s", "w", "o", "r", "d", "-",
         "r", "e", "s", "e", "t">>

\* sdk.js:445, 451, 438: the request made once the user is known.
SecondRequest(op, user) ==
  CASE op.kind = "startEmailVerification" ->
         [method |-> "post", path |-> StartEmailVerificationPath(user.id),
          data |-> [type |-> "object", email |-> op.b.email, locale |-> op.b.locale]]
    [] op.kind = "forgotPassword" ->
         [method |-> "post", path |-> StartPasswordResetPath(user.id),
          data |-> IF Not(op.b.locale) THEN [type |-> "object"]
                   ELSE [type |-> "object", locale |-> op.b.locale]]
    [] op.kind = "signUpUser" ->
         [method |-> "post", path |-> StartEmailVerificationPath(user.id),
          data |-> [type |-> "object", email |-> op.b.email, locale |-> op.b.locale]]

\* sdk.js:432-452: the call makes its first request and waits for it.
UserCall(in) ==
  /\ Len(ops) < MaxOps
  /\ Req(IF in.kind = "signUpUser" THEN CreateUserRequest(in.b)
         ELSE FromEmailRequest(in.b.email))
  /\ ops' = Append(ops, [kind |-> in.kind, b |-> in.b,
                         pc |-> IF in.kind = "signUpUser" THEN "createUser" ELSE "fromEmail",
                         reqs |-> <<Len(reqs) + 1>>, user |-> Undefined,
                         state |-> "pending", value |-> Undefined])
  /\ UNCHANGED jobVars

\* The request call o is waiting for.
Awaited(o) == reqs[ops[o].reqs[Len(ops[o].reqs)]]

Waiting(o, pc) ==
  /\ o \in DOMAIN ops
  /\ ops[o].state = "pending"
  /\ ops[o].pc = pc
  /\ Awaited(o).state \in {"resolved", "rejected"}

Rejects(o, err) ==
  /\ ops' = [ops EXCEPT ![o].state = "rejected", ![o].value = err]
  /\ UNCHANGED httpVars

Continues(o, user) ==
  /\ Req(SecondRequest(ops[o], user))
  /\ ops' = [ops EXCEPT ![o].pc = "post", ![o].user = user,
                        ![o].reqs = Append(@, Len(reqs) + 1)]

\* sdk.js:420-425, 443-445, 449-451: the lookup has settled.
AfterFromEmail(o) ==
  /\ Waiting(o, "fromEmail")
  /\ IF Awaited(o).state = "rejected" THEN Rejects(o, Awaited(o).value)
     ELSE LET user == FromEmail(Awaited(o).value.body)
          IN  IF Not(user) THEN Rejects(o, UserNotFound)
              ELSE Continues(o, user)
  /\ UNCHANGED jobVars

\* sdk.js:427-430, 434-438: the creation has settled.
AfterCreateUser(o) ==
  /\ Waiting(o, "createUser")
  /\ IF Awaited(o).state = "rejected" THEN Rejects(o, Awaited(o).value)
     ELSE LET user == Awaited(o).value.body
          IN  IF Not(user) THEN Rejects(o, FailedToCreateUser)
              ELSE Continues(o, user)
  /\ UNCHANGED jobVars

\* sdk.js:438-439, 445, 451, 476-482: the second request has settled.
AfterPost(o) ==
  /\ Waiting(o, "post")
  /\ IF Awaited(o).state = "rejected" THEN Rejects(o, Awaited(o).value)
     ELSE /\ ops' = [ops EXCEPT ![o].state = "resolved",
                                ![o].value = IF ops[o].kind = "signUpUser"
                                               THEN ops[o].user ELSE Undefined]
          /\ UNCHANGED httpVars
  /\ UNCHANGED jobVars

\* What the server may answer to a request: a list of users to a lookup, a
\* user or nothing to a creation, nothing to the others; or a failure.
ServerAnswers(req) ==
  {[type |-> "response", status |-> 200, body |-> body] :
     body \in IF req.method = "get"
               THEN {Null, Array(<<>>)}
                      \cup {Array(<<User(id)>>) : id \in UserIds}
                      \cup {Array(<<User(<<"u", "1">>), User(<<"u", "2">>)>>)}
             ELSE IF req.path = <<"/", "u", "s", "e", "r", "s">>
               THEN {Null} \cup {User(id) : id \in UserIds}
             ELSE {Null}}
  \cup {[type |-> "error", status |-> 404], [type |-> "error", name |-> "NetworkError"]}

(* --------------------------- specification ---------------------------- *)

InitJob ==
  /\ jobId = 1
  /\ socket = [i \in Instances |-> "unset"]
  /\ emitter = [i \in Instances |-> <<>>]
  /\ subscribers = <<>>
  /\ store \in {[job |-> Null, data |-> Obj("p1")]}
  /\ calls = <<>>
  /\ frame = NoFrame
  /\ wire = <<>>
  /\ notifications = 0
  /\ resolvedAt = <<>>
  /\ fired = [spy |-> FALSE, events |-> <<>>]

InitHttp ==
  /\ authCalls = <<>>
  /\ reqs = <<>>
  /\ network = <<>>

InitUser == ops = <<>>

Init == InitJob /\ InitHttp /\ InitUser

\* One Sdk instance in use.
Single == {"A"}

Next ==
  \/ \E i \in Single, kind \in SocketKinds : SetupRedux(i, kind)
  \/ \E st \in StoreStates : Dispatch(st)
  \/ \E i \in Single, in \in EmitInputs : EmitCall(i, in)
  \/ ExecOnce
  \/ ExecSocketEmitUnset
  \/ ExecSocketEmitThrows
  \/ ExecSocketEmitPlain
  \/ \E data \in Payloads : ExecSocketEmitEcho(data)

Spec == Init /\ [][Next]_vars

\* The HTTP facade on its own.
NextHttp ==
  \/ \E in \in HttpInputs : ReqCall(in)
  \/ \E k \in 1..MaxReqs, strategy \in Strategies : ProviderResolves(k, strategy)
  \/ \E k \in 1..MaxReqs : ProviderRejects(k)
  \/ \E c \in 1..MaxReqs : ReqAuthFailed(c)
  \/ \E c \in 1..MaxReqs : ReqSend(c)
  \/ \E c \in 1..MaxReqs : ReqThen(c)
  \/ \E c \in 1..MaxReqs, answer \in Responses : Respond(c, answer)

SpecHttp == Init /\ [][NextHttp]_vars

\* Two Sdk instances of one module, both set up on the same store with
\* sockets that take their messages, and a spy on their emitters.
InitShared ==
  /\ jobId = 1
  /\ socket = [i \in Instances |-> "plain"]
  /\ emitter = [i \in Instances |-> <<>>]
  /\ subscribers = <<"A", "B">>
  /\ store = [job |-> Null, data |-> Obj("p1")]
  /\ calls = <<>>
  /\ frame = NoFrame
  /\ wire = <<>>
  /\ notifications = 0
  /\ resolvedAt = <<>>
  /\ fired = [spy |-> TRUE, events |-> <<>>]
  /\ InitHttp
  /\ InitUser

NextShared ==
  \/ \E job \in NotifiedJobs : Dispatch([job |-> job, data |-> Obj("p1")])
  \/ \E i \in Instances : EmitCall(i, [action |-> "updateStats", args |-> <<>>])
  \/ ExecOnce
  \/ ExecSocketEmitPlain

SpecShared == InitShared /\ [][NextShared]_vars

\* The chained calls of UserSdk over Sdk._req, unauthenticated or with a
\* provider that fails.
NextUser ==
  \/ \E in \in UserInputs : UserCall(in)
  \/ \E o \in 1..MaxOps : AfterFromEmail(o)
  \/ \E o \in 1..MaxOps : AfterCreateUser(o)
  \/ \E o \in 1..MaxOps : AfterPost(o)
  \/ \E k \in 1..(2 * MaxOps) : ProviderResolves(k, Unauthenticated)
  \/ \E k \in 1..(2 * MaxOps) : ProviderRejects(k)
  \/ \E c \in 1..(2 * MaxOps) : ReqAuthFailed(c)
  \/ \E c \in 1..(2 * MaxOps) : ReqSend(c)
  \/ \E c \in 1..(2 * MaxOps) : ReqThen(c)
  \/ \E c \in DOMAIN reqs : \E answer \in ServerAnswers(reqs[c]) : Respond(c, answer)

SpecUser == Init /\ [][NextUser]_vars

\* Sdk._req past its await, over every strategy an authenticator can return
\* whose strings are at most MaxStrLen characters of Alphabet.
MaxStrLen == 2

Alphabet == {"a", ":", "~"}

StringsUpTo(n) == UNION {[1..k -> Alphabet] : k \in 0..n}

AllStrategies ==
  {Unauthenticated}
    \cup {Basic(u, p) : u \in StringsUpTo(MaxStrLen), p \in StringsUpTo(MaxStrLen)}
    \cup {Bearer(t) : t \in StringsUpTo(MaxStrLen)}

\* sdk.js:311-313: one call whose authenticator has just resolved.
InitAwaited ==
  /\ InitJob
  /\ authCalls \in {<<[state |-> "resolved", value |-> s]>> : s \in AllStrategies}
  /\ reqs \in {<<[method |-> in.method, path |-> in.path,
                  url |-> baseUrl \o in.path, data |-> in.data,
                  headers |-> <<>>, auth |-> 1, state |-> "awaitAuth",
                  value |-> Undefined]>> : in \in HttpInputs}
  /\ network = <<(<<>>)>>
  /\ InitUser

NextHeader ==
  \/ ReqSend(1)
  \/ ReqThen(1)
  \/ \E answer \in Responses : Respond(1, answer)

SpecHeader == InitAwaited /\ [][NextHeader]_vars

(* ------------------------------- claims ------------------------------- *)

\* The waiters registered for call c, on any instance.
WaitersOf(em, c) ==
  {w \in UNION {{em[i][k] : k \in DOMAIN em[i]} : i \in Instances} : w.resolve = c}

\* The number of listeners registered under an event name, over all instances.
WaiterCount(name) ==
  Cardinality({<<i, k>> \in Instances \X (1..(2 * MaxCalls)) :
                 k \in DOMAIN emitter[i] /\ emitter[i][k].event = name})

\* The messages on the wire that call c emitted.
MessagesOf(c) == {k \in DOMAIN wire : wire[k].call = c}

\* Call c has returned to its caller.
Returned(c) == c \in DOMAIN calls /\ (frame.pc = 0 \/ frame.call # c)

\* This step is a store notification that exposes the id call c drew.
ReplyObservedFor(c) ==
  notifications' # notifications /\ store'.job = Num(calls[c].jId)

\* C1: with any number of outstanding calls and the store exposing their ids
\* in any order, a call's promise is resolved only in a step in which the
\* store exposes the id that call drew, and every such step resolves the
\* pending promise waiting on that id.
C1_RoutingByDrawnId ==
  [][\A c \in DOMAIN calls :
       /\ (calls[c].state = "pending" /\ calls'[c].state = "resolved")
            => ReplyObservedFor(c)
       /\ (ReplyObservedFor(c) /\ calls[c].state = "pending" /\ WaitersOf(emitter, c) # {})
            => calls'[c].state = "resolved"]_vars

\* Three calls were outstanding together and were resolved third, first, second.
C1_Witness ==
  /\ Len(calls) >= 3
  /\ \A c \in 1..3 : calls[c].state = "resolved"
  /\ 0 < resolvedAt[3] /\ resolvedAt[3] < resolvedAt[1] /\ resolvedAt[1] < resolvedAt[2]

\* C2 as stated: the promise resolved by a reply is fulfilled with the payload
\* the store carries at that notification.
C2_FulfilledWithPayload ==
  [][\A c \in DOMAIN calls :
       (calls[c].state = "pending" /\ calls'[c].state = "resolved")
         => calls'[c].value = store'.data]_vars

\* C2, what the code does instead: a promise resolved by a reply is fulfilled
\* with undefined, whatever payload the store carries, because the event is
\* fired with no arguments.
C2_FulfilledWithUndefined ==
  \A c \in DOMAIN calls : calls[c].state = "resolved" => calls[c].value = Undefined

\* A call was resolved by the notification that exposed its id while the
\* store carried payload p2; its promise holds undefined, not p2.
C2_Witness ==
  \E c \in DOMAIN calls :
    /\ calls[c].state = "resolved"
    /\ resolvedAt[c] = notifications
    /\ store = [job |-> Num(calls[c].jId), data |-> Obj("p2")]
    /\ calls[c].value = Undefined

\* C3: a store notification changes neither the promise nor the waiter of any
\* call whose id is not the one the store exposes.
C3_OtherCallsUntouched ==
  [][\A c \in DOMAIN calls :
       (notifications' # notifications /\ store'.job # Num(calls[c].jId))
         => /\ calls'[c] = calls[c]
            /\ WaitersOf(emitter', c) = WaitersOf(emitter, c)]_vars

\* Ids a < b outstanding, b's reply seen first: b is resolved, a is pending
\* with its waiter still registered.
C3_Witness ==
  \E a, b \in DOMAIN calls :
    /\ calls[a].jId < calls[b].jId
    /\ calls[b].state = "resolved" /\ resolvedAt[b] > 0
    /\ calls[a].state = "pending" /\ WaitersOf(emitter, a) # {}
    /\ frame.pc = 0

\* C4: the k-th call of the process draws id k (from 1, no gaps, none twice),
\* the counter is always one past the last id drawn, and no step lowers it.
C4_IdsCountUpFromOne ==
  /\ [](/\ jobId = Len(calls) + 1
        /\ \A k \in DOMAIN calls : calls[k].jId = k)
  /\ [][jobId' >= jobId]_vars

C4_Witness == Len(calls) >= 3 /\ jobId = 4 /\ calls[3].jId = 3

\* C5: once the promise for id j is resolved its waiter is gone, and a further
\* notification whose current job is j changes no promise, no registry and
\* not the counter.
C5_FiresAtMostOnce ==
  [][\A c \in DOMAIN calls :
       (calls[c].state = "resolved" /\ ReplyObservedFor(c))
         => /\ WaitersOf(emitter, c) = {}
            /\ UNCHANGED <<calls, emitter, jobId, wire>>]_vars

\* The promise was resolved by an earlier notification and the latest one, an
\* unrelated change of the store's data, still exposes its id.
C5_Witness ==
  \E c \in DOMAIN calls :
    /\ calls[c].state = "resolved"
    /\ 0 < resolvedAt[c] /\ resolvedAt[c] < notifications
    /\ store.job = Num(calls[c].jId)

\* C6: a message on the wire always has its waiter already registered under
\* the message's id (or already fired), and a reply that reaches the store
\* during the socket's emit resolves the call.
C6_RegisteredBeforeEmitted ==
  \A k \in DOMAIN wire :
    LET c == wire[k].call
        name == toString(Num(wire[k].args[2].jobId))
    IN /\ \/ \E w \in WaitersOf(emitter, c) : w.event = name
          \/ calls[c].state = "resolved"
       /\ wire[k].socket = "echo" => calls[c].state = "resolved"

\* A message went out on a socket whose reply reached the store before emit
\* returned, and that very notification resolved the call.
C6_Witness ==
  \E k \in DOMAIN wire :
    /\ wire[k].socket = "echo"
    /\ calls[wire[k].call].state = "resolved"
    /\ resolvedAt[wire[k].call] > 0

\* C7 as stated: every call that has returned has emitted exactly one message.
C7_ExactlyOneMessage ==
  \A c \in DOMAIN calls : Returned(c) => Cardinality(MessagesOf(c)) = 1

\* C7, amended: a call emits at most one message, exactly one unless
\* this.socket.emit threw (as it does when no connection is set up), in
\* which case none and the promise is rejected; the
\* message is the action, then the options with the call's id, then the
\* arguments in call order, and the call's waiter is registered under the id
\* the message carries.
C7_MessageOfCall ==
  \A c \in DOMAIN calls :
    /\ Cardinality(MessagesOf(c)) <= 1
    /\ Returned(c) => (MessagesOf(c) = {} <=> calls[c].state = "rejected")
    /\ \A k \in MessagesOf(c) :
         /\ wire[k].args = <<calls[c].action, [jobId |-> calls[c].jId]>> \o calls[c].args
         /\ \A w \in WaitersOf(emitter, c) : w.event = toString(Num(wire[k].args[2].jobId))

C7_Witness ==
  \E c \in DOMAIN calls :
    /\ Returned(c)
    /\ Len(calls[c].args) = 3
    /\ MessagesOf(c) # {}
    /\ WaitersOf(emitter, c) # {}

\* C8 as stated: a promise leaves the pending state only in a step in which a
\* reply with its id is observed.
C8_SettlesOnlyOnReply ==
  [][\A c \in DOMAIN calls :
       (calls[c].state = "pending" /\ calls'[c].state # "pending")
         => ReplyObservedFor(c)]_vars

\* C8, amended: a promise is resolved only in a step in which a reply with its
\* id is observed, and is rejected only inside its own call, with what
\* this.socket.emit threw (a TypeError when no connection has been set up);
\* nothing else settles it, and a settled promise never changes again.
C8_SettlesOnReplyOrThrow ==
  [][\A c \in DOMAIN calls :
       /\ (calls[c].state = "pending" /\ calls'[c].state # "pending")
            => \/ calls'[c].state = "resolved" /\ ReplyObservedFor(c)
               \/ /\ calls'[c].state = "rejected"
                  /\ frame.pc > 0 /\ frame.call = c
                  /\ \/ socket[calls[c].inst] = "unset" /\ calls'[c].value = TypeError
                     \/ socket[calls[c].inst] = "throws" /\ calls'[c].value = SocketError
       /\ calls[c].state # "pending" => calls'[c] = calls[c]]_vars

\* One call was rejected by the throw; another has seen notifications go by,
\* none with its id, and is still pending.
C8_Witness ==
  \E c, d \in DOMAIN calls :
    /\ calls[c].state = "rejected"
    /\ calls[d].state = "pending" /\ Returned(d)
    /\ notifications >= 2
    /\ store.job # Num(calls[d].jId)

\* C9: no event name has more than one waiter, over all instances, and every
\* waiter is registered under an id already drawn, so the next id to be
\* drawn has none.
C9_OneWaiterPerId ==
  \A i \in Instances : \A k \in DOMAIN emitter[i] :
    /\ WaiterCount(emitter[i][k].event) <= 1
    /\ \E c \in DOMAIN calls :
         /\ emitter[i][k].event = toString(Num(calls[c].jId))
         /\ calls[c].jId < jobId

C9_Witness ==
  \E i \in Instances :
    /\ Len(emitter[i]) >= 2
    /\ emitter[i][1].event # emitter[i][2].event
    /\ frame.pc = 0

\* C10: every _req call invokes the provider once, the k-th call the k-th
\* invocation, and a request that is sent carries the header of the strategy
\* that very invocation resolved to.
C10_FreshCredentials ==
  /\ Len(authCalls) = Len(reqs)
  /\ \A c \in DOMAIN reqs : reqs[c].auth = c
  /\ \A c \in DOMAIN network : \A k \in DOMAIN network[c] :
       /\ authCalls[c].state = "resolved"
       /\ network[c][k].headers = WithAuth(<<>>, authCalls[c].value)

\* The provider resolved to basic credentials for the first call and to a
\* token for the second: both requests were sent, each with its own header.
C10_Witness ==
  /\ Len(network) >= 2
  /\ authCalls[1].value = Basic(<<"a">>, <<"b">>)
  /\ authCalls[2].value = Bearer(<<"x", "y">>)
  /\ Len(network[1]) = 1 /\ Len(network[2]) = 1
  /\ network[1][1].headers =
       <<[name |-> "Authorization",
          value |-> <<"B", "a", "s", "i", "c", " ", "Y", "T", "p", "i">>]>>
  /\ network[2][1].headers =
       <<[name |-> "Authorization",
          value |-> <<"B", "e", "a", "r", "e", "r", " ", "x", "y">>]>>

\* C11: when the credentials provider rejects, the call rejects with that very
\* error and no request of the call reaches the network.
C11_ProviderErrorPropagates ==
  \A c \in DOMAIN reqs :
    authCalls[reqs[c].auth].state = "rejected" =>
      /\ network[c] = <<>>
      /\ reqs[c].state \in {"awaitAuth", "rejected"}
      /\ reqs[c].state = "rejected" => reqs[c].value = authCalls[reqs[c].auth].value

\* A call was rejected with the provider's error, nothing sent.
C11_Witness ==
  \E c \in DOMAIN reqs :
    /\ authCalls[reqs[c].auth] = [state |-> "rejected", value |-> AuthError]
    /\ reqs[c].state = "rejected"
    /\ reqs[c].value = AuthError
    /\ network[c] = <<>>

\* Value of a base64 character; the padding character has none.
Index64(ch) ==
  IF ch = "=" THEN 0
  ELSE (CHOOSE k \in 1..64 : Base64Alphabet[k] = ch) - 1

\* Bytes a base64 text stands for, read four characters at a time.
RECURSIVE Base64Decode(_)
Base64Decode(text) ==
  IF Len(text) < 4 THEN <<>>
  ELSE LET v1 == Index64(text[1])
           v2 == Index64(text[2])
           v3 == Index64(text[3])
           v4 == Index64(text[4])
           b1 == v1 * 4 + (v2 \div 16)
           b2 == (v2 % 16) * 16 + (v3 \div 4)
           b3 == (v3 % 4) * 64 + v4
           group == IF text[3] = "=" THEN <<b1>>
                    ELSE IF text[4] = "=" THEN <<b1, b2>>
                    ELSE <<b1, b2, b3>>
       IN  group \o Base64Decode(SubSeq(text, 5, Len(text)))

AuthorizationHeaders(headers) ==
  {k \in DOMAIN headers : headers[k].name = "Authorization"}

\* C12: the header of a sent request is determined by the strategy: none for
\* Unauthenticated; for Basic, "Basic " followed by a padded base64 text that
\* decodes to username, colon, password; for Bearer, "Bearer " followed by
\* the token. A request has zero or one Authorization header.
C12_HeaderOfStrategy ==
  \A c \in DOMAIN network : \A k \in DOMAIN network[c] :
    LET headers == network[c][k].headers
        strategy == authCalls[reqs[c].auth].value
    IN  /\ Cardinality(AuthorizationHeaders(headers)) <= 1
        /\ strategy.type = "unauthenticated" => headers = <<>>
        /\ strategy.type = "basic" =>
              /\ Len(headers) = 1
              /\ headers[1].name = "Authorization"
              /\ LET value == headers[1].value
                     text == SubSeq(value, 7, Len(value))
                     plain == strategy.username \o <<":">> \o strategy.password
                 IN  /\ SubSeq(value, 1, 6) = <<"B", "a", "s", "i", "c", " ">>
                     /\ Len(text) = 4 * ((Len(plain) + 2) \div 3)
                     /\ \A n \in DOMAIN text :
                          text[n] = "=" \/ \E m \in 1..64 : Base64Alphabet[m] = text[n]
                     /\ Base64Decode(text) = Bytes(plain)
        /\ strategy.type = "bearer" =>
              headers = <<[name |-> "Authorization",
                           value |-> <<"B", "e", "a", "r", "e", "r", " ">> \o strategy.token]>>
        /\ strategy = Basic(<<"a">>, <<":">>) =>
              headers[1].value = <<"B", "a", "s", "i", "c", " ", "Y", "T", "o", "6">>

\* A request went out for the credentials a with password ~: (one padding
\* character), and in another run for a bearer token.
C12_Witness ==
  /\ Len(network) = 1 /\ Len(network[1]) = 1
  /\ authCalls[1].value = Basic(<<"a">>, <<"~", ":">>)
  /\ network[1][1].headers =
       <<[name |-> "Authorization",
          value |-> <<"B", "a", "s", "i", "c", " ", "Y", "T", "p", "+", "O", "g", "=", "=">>]>>

\* C13: a call whose credentials resolved and that went past its await has
\* exactly one request on the network, to the base URL joined with the path,
\* with the call's method; its payload is the body given, and none when the
\* call has no body.
C13_OneRequestWithBody ==
  \A c \in DOMAIN reqs :
    /\ Len(network[c]) <= 1
    /\ (reqs[c].state = "sent" \/ reqs[c].state = "resolved") => Len(network[c]) = 1
    /\ \A k \in DOMAIN network[c] :
         /\ authCalls[reqs[c].auth].state = "resolved"
         /\ network[c][k].method = reqs[c].method
         /\ network[c][k].url = <<"/", "a", "p", "i">> \o reqs[c].path
         /\ network[c][k].body = reqs[c].data

\* A post went out with its body and a put without one.
C13_Witness ==
  /\ Len(network) >= 2
  /\ Len(network[1]) = 1 /\ Len(network[2]) = 1
  /\ reqs[1].method = "post" /\ reqs[1].data = Obj("body")
  /\ network[1][1].body = Obj("body")
  /\ network[1][1].url = <<"/", "a", "p", "i", "/", "u">>
  /\ reqs[2].method = "put" /\ reqs[2].data = Null
  /\ network[2][1].body = Null

\* C14: a call sends at most one request; a request that failed, by an error
\* status or on the network, rejects the call with that failure, and only a
\* successful response fulfils it.
C14_NoRetryFailurePropagates ==
  \A c \in DOMAIN reqs :
    /\ Len(network[c]) <= 1
    /\ \A k \in DOMAIN network[c] :
         LET answer == network[c][k].answer
         IN  /\ answer = Undefined => reqs[c].state = "sent"
             /\ answer # Undefined =>
                   /\ reqs[c].value = answer
                   /\ reqs[c].state =
                        IF answer.type = "response" THEN "resolved" ELSE "rejected"

\* One call failed on the network and another with an error status; each
\* sent one request and was rejected with its failure.
C14_Witness ==
  /\ Len(reqs) >= 2
  /\ Len(network[1]) = 1 /\ Len(network[2]) = 1
  /\ reqs[1].state = "rejected" /\ reqs[2].state = "rejected"
  /\ reqs[1].value = [type |-> "error", name |-> "NetworkError"]
  /\ reqs[2].value = [type |-> "error", status |-> 404]
  /\ network[1][1].answer = reqs[1].value
  /\ network[2][1].answer = reqs[2].value

\* C16: (as claimed) once a call has returned, a waiter of the call is
\* registered exactly when its message was emitted and its promise is not
\* settled; no waiter is left for a settled call, also when the socket's
\* emit threw or no socket was set up.
C16_WaiterIffEmittedAndPending ==
  \A c \in DOMAIN calls :
    Returned(c) =>
      (WaitersOf(emitter, c) # {} <=>
         (MessagesOf(c) # {} /\ calls[c].state = "pending"))

\* A call made before any socket was set up has returned: its promise is
\* rejected, nothing was emitted, and its waiter is still registered.
C16_LeakedWaiter ==
  \E c \in DOMAIN calls :
    /\ Returned(c)
    /\ calls[c].state = "rejected"
    /\ calls[c].value = TypeError
    /\ MessagesOf(c) = {}
    /\ WaitersOf(emitter, c) # {}

\* The decimal names of the job ids the store reports here.
C17_EventNames == <<(<<"0">>), (<<"1">>), (<<"2">>), (<<"3">>), (<<"4">>), (<<"5">>)>>

\* C17: a notification whose job is null or absent fires no event and leaves
\* every call, waiter, message and the counter as they were; a notification
\* with job k, 0 included, fires event k and no other on every subscribed
\* instance, and only calls that wait for k are touched.
C17_OnlyPresentJobsFire ==
  [][notifications' # notifications =>
       LET job == store'.job
       IN  /\ job \in {Null, Undefined} =>
                 /\ fired'.events = <<>>
                 /\ UNCHANGED <<calls, emitter, jobId, wire, resolvedAt>>
           /\ job.type = "number" =>
                 /\ fired'.events = [k \in DOMAIN subscribers |->
                                [inst |-> subscribers[k],
                                 event |-> C17_EventNames[job.value + 1]]]
                 /\ \A c \in DOMAIN calls :
                      calls'[c] # calls[c] =>
                        /\ calls[c].jId = job.value
                        /\ calls[c].state = "pending"
                        /\ calls'[c].state = "resolved"
                 /\ \A i \in Instances : \A k \in DOMAIN emitter'[i] :
                      \E n \in DOMAIN emitter[i] : emitter'[i][k] = emitter[i][n]]_vars

\* The store reported job 0 and both subscribed instances fired event "0".
C17_Witness ==
  /\ store.job = Num(0)
  /\ subscribers = <<"A", "B">>
  /\ fired.events = <<[inst |-> "A", event |-> <<"0">>], [inst |-> "B", event |-> <<"0">>]>>

\* C18: the instances draw from one counter, so no two calls, of the same or
\* of different instances, have the same id, and a call's waiter lives on its
\* own instance only; a notification resolves calls and removes waiters only
\* of instances that have a call with the reported id.
C18_SharedCounterNoCrossTalk ==
  /\ [](\A c \in DOMAIN calls :
          /\ \A d \in DOMAIN calls : c # d => calls[c].jId # calls[d].jId
          /\ \A i \in Instances : \A k \in DOMAIN emitter[i] :
               emitter[i][k].resolve = c => calls[c].inst = i)
  /\ [][notifications' # notifications =>
          \A i \in Instances :
            (\A c \in DOMAIN calls :
               calls[c].inst = i => Num(calls[c].jId) # store'.job) =>
              /\ emitter'[i] = emitter[i]
              /\ \A c \in DOMAIN calls : calls[c].inst = i => calls'[c] = calls[c]]_vars

\* A drew 1 and B drew 2; the reply for 1 reached both instances: B fired
\* the event too, A's call is resolved, B's call still waits.
C18_Witness ==
  /\ Len(calls) >= 2
  /\ calls[1].inst = "A" /\ calls[1].jId = 1 /\ calls[1].state = "resolved"
  /\ calls[2].inst = "B" /\ calls[2].jId = 2 /\ calls[2].state = "pending"
  /\ store.job = Num(1)
  /\ fired.events = <<[inst |-> "A", event |-> <<"1">>], [inst |-> "B", event |-> <<"1">>]>>
  /\ emitter["A"] = <<>>
  /\ Len(emitter["B"]) = 1

\* C15: startEmailVerification and forgotPassword first look the user up by
\* email. When the lookup's answer is not a list of exactly one user, the call
\* makes no further request and is rejected with 'User not found'. A second
\* request is made only after the lookup answered with exactly one user, and
\* it is the POST of the call's endpoint for that user's id.
C15_LookupThenPost ==
  \A o \in DOMAIN ops :
    ops[o].kind \in {"startEmailVerification", "forgotPassword"} =>
      LET lookup == reqs[ops[o].reqs[1]]
          found == /\ lookup.state = "resolved"
                   /\ lookup.value.body.type = "array"
                   /\ Len(lookup.value.body.items) = 1
          endpoint == IF ops[o].kind = "forgotPassword"
                        THEN <<"/", "s", "t", "a", "r", "t", "-", "p", "a", "s", "s",
                               "w", "o", "r", "d", "-", "r", "e", "s", "e", "t">>
                        ELSE <<"/", "s", "t", "a", "r", "t", "-", "e", "m", "a", "i", "l", "-",
                               "v", "e", "r", "i", "f", "i", "c", "a", "t", "i", "o", "n">>
      IN  /\ lookup.method = "get"
          /\ Len(ops[o].reqs) <= 2
          /\ (lookup.state = "resolved" /\ ~found) =>
                /\ Len(ops[o].reqs) = 1
                /\ ops[o].state # "resolved"
                /\ ops[o].state = "rejected" => ops[o].value = UserNotFound
          /\ Len(ops[o].reqs) = 2 =>
                LET post == reqs[ops[o].reqs[2]]
                IN  /\ found
                    /\ network[ops[o].reqs[1]][1].answer = lookup.value
                    /\ ops[o].reqs[2] > ops[o].reqs[1]
                    /\ post.method = "post"
                    /\ post.url = <<"/", "a", "p", "i", "/", "u", "s", "e", "r", "s", "/">>
                                    \o lookup.value.body.items[1].id \o endpoint

\* forgotPassword for a@b: the lookup found user u2 alone and the password
\* reset of u2 was posted.
C15_Witness ==
  /\ Len(ops) = 1 /\ ops[1].kind = "forgotPassword"
  /\ ops[1].reqs = <<1, 2>>
  /\ network[1][1].url =
       <<"/", "a", "p", "i", "/", "u", "s", "e", "r", "s", "?", "e", "m", "a", "i", "l", "=",
         "a", "%", "4", "0", "b">>
  /\ network[1][1].answer.body = Array(<<User(<<"u", "2">>)>>)
  /\ Len(network[2]) = 1
  /\ network[2][1].method = "post"
  /\ network[2][1].url =
       <<"/", "a", "p", "i", "/", "u", "s", "e", "r", "s", "/", "u", "2", "/", "s", "t", "a",
         "r", "t", "-", "p", "a", "s", "s", "w", "o", "r", "d", "-", "r", "e", "s", "e", "t">>

\* C19: signUpUser posts the verification only after the creation was
\* answered with a user, and to that user's id. When the creation fails or
\* returns no user the call is rejected and posts no verification; when the
\* verification fails the call is rejected with that failure; a fulfilled
\* call returns the created user.
C19_SignUpCreatesThenVerifies ==
  \A o \in DOMAIN ops :
    ops[o].kind = "signUpUser" =>
      LET create == reqs[ops[o].reqs[1]]
      IN  /\ create.method = "post"
          /\ create.url = <<"/", "a", "p", "i", "/", "u", "s", "e", "r", "s">>
          /\ Len(ops[o].reqs) <= 2
          /\ create.state = "rejected" =>
                /\ Len(ops[o].reqs) = 1
                /\ ops[o].state # "resolved"
                /\ ops[o].state = "rejected" => ops[o].value = create.value
          /\ (create.state = "resolved" /\ create.value.body.type # "object") =>
                /\ Len(ops[o].reqs) = 1
                /\ ops[o].state # "resolved"
                /\ ops[o].state = "rejected" => ops[o].value = FailedToCreateUser
          /\ Len(ops[o].reqs) = 2 =>
                LET verify == reqs[ops[o].reqs[2]]
                IN  /\ create.state = "resolved"
                    /\ create.value.body.type = "object"
                    /\ verify.method = "post"
                    /\ verify.url =
                         <<"/", "a", "p", "i", "/", "u", "s", "e", "r", "s", "/">>
                           \o create.value.body.id
                           \o <<"/", "s", "t", "a", "r", "t", "-", "e", "m", "a", "i", "l", "-",
                                "v", "e", "r", "i", "f", "i", "c", "a", "t", "i", "o", "n">>
                    /\ verify.state = "rejected" =>
                          /\ ops[o].state # "resolved"
                          /\ ops[o].state = "rejected" => ops[o].value = verify.value
                    /\ ops[o].state = "rejected" => verify.state = "rejected"
          /\ ops[o].state = "resolved" =>
                /\ Len(ops[o].reqs) = 2
                /\ reqs[ops[o].reqs[2]].state = "resolved"
                /\ ops[o].value = create.value.body

\* The creation returned user u2, the verification of u2 was posted and
\* failed with an error status: the call is rejected with that failure.
C19_Witness ==
  /\ Len(ops) = 1 /\ ops[1].kind = "signUpUser"
  /\ ops[1].reqs = <<1, 2>>
  /\ network[1][1].answer.body = User(<<"u", "2">>)
  /\ Len(network[2]) = 1
  /\ network[2][1].url =
       <<"/", "a", "p", "i", "/", "u", "s", "e", "r", "s", "/", "u", "2", "/", "s", "t", "a",
         "r", "t", "-", "e", "m", "a", "i", "l", "-", "v", "e", "r", "i", "f", "i", "c", "a",
         "t", "i", "o", "n">>
  /\ network[2][1].answer = [type |-> "error", status |-> 404]
  /\ ops[1].state = "rejected"
  /\ ops[1].value = [type |-> "error", status |-> 404]

=============================================================================
